---- MODULE Spec2Model ----
(***************************************************************************)
(* The JNI bridge of kistaverk (app/src/main/cpp/native-bridge.cpp): four  *)
(* entry points that acquire the Java input strings, call the Rust engine, *)
(* release the inputs, copy the engine's result into a Java string, free   *)
(* the engine's buffer and return.  Each host thread runs one entry point  *)
(* at a time, one statement per step, so that calls interleave.  The Rust  *)
(* engine itself is not part of the C++ sources; what it answers is        *)
(* modelled from the specification (sections 4.2 - 4.5, 6 and 7).          *)
(***************************************************************************)
EXTENDS Integers, Sequences, FiniteSets, TLC

\* ------------------------------------------------------------------ bounds

\* Largest count (iterations, resolution) the host passes.
MaxCount == 2

\* ------------------------------------------------- engine constants (spec)

\* "capped at a fixed maximum iteration count" (spec 4.2, mode 3).
MaxSearchIterations == 2

\* "seeded at multiple starting points" (spec 4.2, mode 3).
NumSeeds == 2

\* "a small fixed number of untimed warm-up evaluations" (spec 4.5).
WarmupEvaluations == 1

\* ------------------------------------------------------------------- hosts

\* The host threads that may be inside the bridge at the same time.
Threads == {"t1", "t2"}

\* The counts the host passes: a negative one, zero and a positive one.
Counts == {-1, 0, MaxCount}

\* The plot range end points the host passes (doubles, here whole numbers).
XValues == {-1, 1}

\* What the expression text is to the engine's parser.
ExprTexts == {"wellformed", "malformed"}

\* jboolean: JNI_FALSE and JNI_TRUE.
JBooleans == {0, 1}

Request(op, text, iterations, mode, forwardMode, xMin, xMax, resolution) ==
    [op |-> op, text |-> text, iterations |-> iterations, mode |-> mode,
     forwardMode |-> forwardMode, xMin |-> xMin, xMax |-> xMax,
     resolution |-> resolution]

NoRequest == Request("none", "", 0, 0, 0, 0, 0, 0)

\* The calls of the four native methods the host can make.
Requests ==
    {Request("nativeAnalyzeFunction", t, n, m, 0, 0, 0, 0) :
        t \in ExprTexts, n \in {0, MaxCount}, m \in 0..3}
    \cup {Request("nativeComputeDerivative", t, 0, 0, f, 0, 0, 0) :
        t \in ExprTexts, f \in JBooleans}
    \cup {Request("nativeCreatePlot", t, 0, 0, 0, a, b, n) :
        t \in ExprTexts, a \in XValues, b \in XValues, n \in Counts}
    \cup {Request("nativeBenchmarkFunction", t, n, 0, 0, 0, 0, 0) :
        t \in ExprTexts, n \in Counts}

\* --------------------------------------------------------------- pointers

NULL == << >>

\* The character buffer GetStringUTFChars hands to invocation i for jstring s.
Utf(i, s) == <<"utf", i, s>>

\* The buffer the engine allocates for the result of invocation i's call.
Rust(i) == <<"rust", i, "result">>

Bufs == {Utf(i, s) : i \in Threads, s \in {"expression", "variable"}}
        \cup {Rust(i) : i \in Threads}

Owner(p) == p[2]

Blank == [st |-> "unalloc", rel |-> 0, relBy |-> {}, relWith |-> {},
          consumed |-> FALSE, badRead |-> FALSE, content |-> ""]

NoContent == [kind |-> "", error |-> FALSE, evals |-> 0, points |-> 0,
              notFound |-> 0]

Garbage == [NoContent EXCEPT !.kind = "garbage"]

EngIdle == [fn |-> "", text |-> "", args |-> << >>, seed |-> 0, iter |-> 0,
            found |-> 0, notFound |-> 0]

VARIABLES
    pc,          \* the statement each thread is at
    req,         \* the arguments the host passed to the running call
    expr_chars,  \* local: the expression's characters, per frame
    var_chars,   \* local: the variable's characters, per frame
    result,      \* local: the engine's result buffer, per frame
    j_result,    \* local: the Java string made of the result, per frame
    ret,         \* what the call returned to the host
    heap,        \* every buffer: its state and what was done to it
    eng,         \* the engine call in flight
    log          \* history: the JNI and engine calls of the running call

vars == <<pc, req, expr_chars, var_chars, result, j_result, ret, heap, eng, log>>

\* Locals declared static: one frame for every call.
SharedFrame(i) == CHOOSE f \in Threads : TRUE

\* The locals of a native method have automatic storage: one frame per call.
Frame(i) == i

Frames == {Frame(i) : i \in Threads}

Entry(call, jstr, ptr, inp, args) ==
    [call |-> call, jstr |-> jstr, ptr |-> ptr, inp |-> inp, args |-> args]

Logged(i, e) == [log EXCEPT ![i] = Append(@, e)]

Init ==
    /\ pc = [i \in Threads |-> "idle"]
    /\ req = [i \in Threads |-> NoRequest]
    /\ expr_chars = [f \in Frames |-> NULL]
    /\ var_chars = [f \in Frames |-> NULL]
    /\ result = [f \in Frames |-> NULL]
    /\ j_result = [f \in Frames |-> NULL]
    /\ ret = [i \in Threads |-> NULL]
    /\ heap = [p \in Bufs |-> Blank]
    /\ eng = [i \in Threads |-> EngIdle]
    /\ log = [i \in Threads |-> << >>]

\* ------------------------------------------------------------ JNI, memory

\* A fresh live buffer holding `content`.
Allocated(h, p, content) ==
    [h EXCEPT ![p] = [Blank EXCEPT !.st = "live", !.content = content]]

\* ReleaseStringUTFChars(js, p) or free_string(p) by thread i.
Released(h, p, i, js) ==
    IF p = NULL THEN h
    ELSE [h EXCEPT ![p] = [@ EXCEPT !.st = "released", !.rel = @ + 1,
                                    !.relBy = @ \cup {i},
                                    !.relWith = @ \cup {js}]]

\* A read of buffer p: reading a released buffer is recorded.
ReadOf(h, p) ==
    IF p = NULL THEN h
    ELSE [h EXCEPT ![p] = [@ EXCEPT !.consumed = TRUE,
                                    !.badRead = @ \/ h[p].st # "live"]]

\* What a read of p can yield: the content, or anything once it is released.
Readable(h, p, garbage) ==
    IF p = NULL THEN {garbage}
    ELSE IF h[p].st = "live" THEN {h[p].content}
    ELSE {h[p].content, garbage}

\* Only nativeComputeDerivative takes a second string.
HasVariable(op) == op = "nativeComputeDerivative"

\* The host calls a native method.
Invoke(i) ==
    /\ pc[i] = "idle"
    /\ \E r \in Requests : req' = [req EXCEPT ![i] = r]
    /\ pc' = [pc EXCEPT ![i] = "get_expr"]
    /\ UNCHANGED <<expr_chars, var_chars, result, j_result, ret, heap, eng, log>>

\* The host has what the call returned; the call and its buffers are history.
HostTakes(i) ==
    /\ pc[i] = "done"
    /\ pc' = [pc EXCEPT ![i] = "idle"]
    /\ req' = [req EXCEPT ![i] = NoRequest]
    /\ ret' = [ret EXCEPT ![i] = NULL]
    /\ log' = [log EXCEPT ![i] = << >>]
    /\ heap' = [p \in Bufs |-> IF Owner(p) = i THEN Blank ELSE heap[p]]
    /\ UNCHANGED <<expr_chars, var_chars, result, j_result, eng>>

\* const char* expr_chars = env->GetStringUTFChars(expression, nullptr);
GetExprChars(i) ==
    /\ pc[i] = "get_expr"
    /\ \E ok \in BOOLEAN :
         LET p == IF ok THEN Utf(i, "expression") ELSE NULL IN
         /\ expr_chars' = [expr_chars EXCEPT ![Frame(i)] = p]
         /\ heap' = IF ok THEN Allocated(heap, p, req[i].text) ELSE heap
         /\ log' = Logged(i, Entry("GetStringUTFChars", "expression", p, << >>, << >>))
    /\ pc' = [pc EXCEPT ![i] = IF HasVariable(req[i].op) THEN "get_var" ELSE "check"]
    /\ UNCHANGED <<req, var_chars, result, j_result, ret, eng>>

\* const char* var_chars = env->GetStringUTFChars(variable, nullptr);
GetVarChars(i) ==
    /\ pc[i] = "get_var"
    /\ \E ok \in BOOLEAN :
         LET p == IF ok THEN Utf(i, "variable") ELSE NULL IN
         /\ var_chars' = [var_chars EXCEPT ![Frame(i)] = p]
         /\ heap' = IF ok THEN Allocated(heap, p, "x") ELSE heap
         /\ log' = Logged(i, Entry("GetStringUTFChars", "variable", p, << >>, << >>))
    /\ pc' = [pc EXCEPT ![i] = "check"]
    /\ UNCHANGED <<req, expr_chars, result, j_result, ret, eng>>

\* The input buffers the running method holds, with the jstring of each.
Inputs(i) ==
    IF HasVariable(req[i].op)
    THEN << <<"expression", expr_chars[Frame(i)]>>, <<"variable", var_chars[Frame(i)]>> >>
    ELSE << <<"expression", expr_chars[Frame(i)]>> >>

\* The log entries of releasing every non-null input among `ins`.
RECURSIVE ReleaseEntries(_)
ReleaseEntries(ins) ==
    IF ins = << >> THEN << >>
    ELSE (IF Head(ins)[2] = NULL THEN << >>
          ELSE << Entry("ReleaseStringUTFChars", Head(ins)[1], Head(ins)[2], << >>, << >>) >>)
         \o ReleaseEntries(Tail(ins))

RECURSIVE ReleasedAll(_, _, _)
ReleasedAll(h, ins, i) ==
    IF ins = << >> THEN h
    ELSE ReleasedAll(Released(h, Head(ins)[2], i, Head(ins)[1]), Tail(ins), i)

\* The frame of a returning call is gone.
Popped(locals, i) == [locals EXCEPT ![Frame(i)] = NULL]

\* An early return that releases nothing.
FailAcquireLeaky(i) ==
    /\ pc[i] = "check"
    /\ \E k \in DOMAIN Inputs(i) : Inputs(i)[k][2] = NULL
    /\ ret' = [ret EXCEPT ![i] = NULL]
    /\ pc' = [pc EXCEPT ![i] = "done"]
    /\ expr_chars' = Popped(expr_chars, i)
    /\ var_chars' = Popped(var_chars, i)
    /\ result' = Popped(result, i)
    /\ j_result' = Popped(j_result, i)
    /\ UNCHANGED <<req, eng, heap, log>>

\* if (!expr_chars || !var_chars) { release what was acquired; return nullptr; }
\* if (!expr_chars) { return nullptr; }
FailAcquire(i) ==
    /\ pc[i] = "check"
    /\ \E k \in DOMAIN Inputs(i) : Inputs(i)[k][2] = NULL
    /\ heap' = ReleasedAll(heap, Inputs(i), i)
    /\ log' = [log EXCEPT ![i] = @ \o ReleaseEntries(Inputs(i))]
    /\ ret' = [ret EXCEPT ![i] = NULL]
    /\ pc' = [pc EXCEPT ![i] = "done"]
    /\ expr_chars' = Popped(expr_chars, i)
    /\ var_chars' = Popped(var_chars, i)
    /\ result' = Popped(result, i)
    /\ j_result' = Popped(j_result, i)
    /\ UNCHANGED <<req, eng>>

\* ------------------------------------------------------------- the engine

\* jboolean (an unsigned byte) to the bool the engine takes.
ToBool(b) == b # 0

\* create_plot given xMax for x_min and xMin for x_max.
EngineCallSwappedRange(r) ==
    CASE r.op = "nativeAnalyzeFunction" ->
           [fn |-> "analyze_function", args |-> <<r.iterations, r.mode>>]
      [] r.op = "nativeComputeDerivative" ->
           [fn |-> "compute_derivative", args |-> <<ToBool(r.forwardMode)>>]
      [] r.op = "nativeCreatePlot" ->
           [fn |-> "create_plot", args |-> <<r.xMax, r.xMin, r.resolution>>]
      [] r.op = "nativeBenchmarkFunction" ->
           [fn |-> "benchmark_function", args |-> <<r.iterations>>]

\* analyze_function given mode for iterations and iterations for mode.
EngineCallReordered(r) ==
    CASE r.op = "nativeAnalyzeFunction" ->
           [fn |-> "analyze_function", args |-> <<r.mode, r.iterations>>]
      [] r.op = "nativeComputeDerivative" ->
           [fn |-> "compute_derivative", args |-> <<ToBool(r.forwardMode)>>]
      [] r.op = "nativeCreatePlot" ->
           [fn |-> "create_plot", args |-> <<r.xMin, r.xMax, r.resolution>>]
      [] r.op = "nativeBenchmarkFunction" ->
           [fn |-> "benchmark_function", args |-> <<r.iterations>>]

\* The engine function each native method calls, and the scalars it passes.
EngineCall(r) ==
    CASE r.op = "nativeAnalyzeFunction" ->
           [fn |-> "analyze_function", args |-> <<r.iterations, r.mode>>]
      [] r.op = "nativeComputeDerivative" ->
           [fn |-> "compute_derivative", args |-> <<ToBool(r.forwardMode)>>]
      [] r.op = "nativeCreatePlot" ->
           [fn |-> "create_plot", args |-> <<r.xMin, r.xMax, r.resolution>>]
      [] r.op = "nativeBenchmarkFunction" ->
           [fn |-> "benchmark_function", args |-> <<r.iterations>>]

\* analyze in mode 3 on a parsed expression searches for critical points.
NeedsSearch(fn, text, args) ==
    fn = "analyze_function" /\ text = "wellformed" /\ args[2] = 3

\* The engine is still searching from one of its starting points.
Searching(e) ==
    NeedsSearch(e.fn, e.text, e.args) /\ e.seed \in 1..NumSeeds

Error(kind) == [NoContent EXCEPT !.kind = kind, !.error = TRUE]

\* analyze: the result of each mode (spec 4.2).
AnalyzeResult(e) ==
    CASE e.args[2] = 0 -> [NoContent EXCEPT !.kind = "Value", !.evals = 1]
      [] e.args[2] = 1 -> [NoContent EXCEPT !.kind = "Simplified"]
      [] e.args[2] = 2 -> [NoContent EXCEPT !.kind = "Classification"]
      [] e.args[2] = 3 -> [NoContent EXCEPT !.kind = "CriticalPoints",
                                            !.points = e.found,
                                            !.notFound = e.notFound]
      [] OTHER -> Error("InvalidArgumentError")

\* sample: fails at once on a bad range, else one point per grid position
\* (spec 4.4).
SampleResult(e) ==
    IF e.args[1] >= e.args[2] \/ e.args[3] <= 0
    THEN Error("InvalidRangeError")
    ELSE [NoContent EXCEPT !.kind = "SampleGrid", !.points = e.args[3],
                           !.evals = e.args[3]]

\* benchmark: fails on a non-positive count, else warms up and times the
\* evaluations (spec 4.5).
BenchmarkResult(e) ==
    IF e.args[1] <= 0
    THEN Error("InvalidArgumentError")
    ELSE [NoContent EXCEPT !.kind = "BenchmarkResult", !.points = e.args[1],
                           !.evals = WarmupEvaluations + e.args[1]]

\* The structured result of an engine call: the parser runs first, its AST is
\* routed to the operation (spec 2), and every error is encoded (spec 7).
EngineResult(e) ==
    IF e.text # "wellformed" THEN Error("ParseError")
    ELSE CASE e.fn = "analyze_function" -> AnalyzeResult(e)
           [] e.fn = "compute_derivative" -> [NoContent EXCEPT !.kind = "Derivative"]
           [] e.fn = "create_plot" -> SampleResult(e)
           [] e.fn = "benchmark_function" -> BenchmarkResult(e)

\* The engine is entered with the buffers `ins`, read from heap h.
EngineEntered(i, h, ins, prefix) ==
    LET c == EngineCall(req[i])
        ptrs == [k \in DOMAIN ins |-> ins[k][2]]
        read == [p \in Bufs |->
                    IF \E k \in DOMAIN ptrs : ptrs[k] = p THEN ReadOf(h, p)[p] ELSE h[p]]
    IN
    /\ \E t \in Readable(h, ptrs[1], "garbage") :
         eng' = [eng EXCEPT ![i] =
                    [EngIdle EXCEPT !.fn = c.fn, !.text = t, !.args = c.args,
                                    !.seed = IF NeedsSearch(c.fn, t, c.args) THEN 1 ELSE 0]]
    /\ heap' = read
    /\ log' = [log EXCEPT ![i] = @ \o prefix \o <<Entry(c.fn, "", NULL, ptrs, c.args)>>]
    /\ pc' = [pc EXCEPT ![i] = "in_engine"]
    /\ UNCHANGED <<req, expr_chars, var_chars, result, j_result, ret>>

\* The engine called although only the expression was checked.
CallEngineUnchecked(i) ==
    /\ pc[i] = "check"
    /\ expr_chars[Frame(i)] # NULL
    /\ EngineEntered(i, heap, Inputs(i), << >>)

\* The engine called after the inputs were released.
CallEngineAfterRelease(i) ==
    /\ pc[i] = "check"
    /\ \A k \in DOMAIN Inputs(i) : Inputs(i)[k][2] # NULL
    /\ EngineEntered(i, ReleasedAll(heap, Inputs(i), i), Inputs(i),
                     ReleaseEntries(Inputs(i)))

\* const char* result = analyze_function(expr_chars, iterations, mode);  (and
\* compute_derivative, create_plot, benchmark_function): reached only with
\* every input acquired.
CallEngine(i) ==
    /\ pc[i] = "check"
    /\ \A k \in DOMAIN Inputs(i) : Inputs(i)[k][2] # NULL
    /\ EngineEntered(i, heap, Inputs(i), << >>)

\* A search that starts over instead of giving up.
SearchGiveUpRetry(i) ==
    /\ pc[i] = "in_engine"
    /\ Searching(eng[i])
    /\ eng[i].iter >= MaxSearchIterations
    /\ eng' = [eng EXCEPT ![i] = [@ EXCEPT !.iter = 0]]
    /\ UNCHANGED <<pc, req, expr_chars, var_chars, result, j_result, ret, heap, log>>

\* One Newton or bisection step that has not converged yet.
SearchIterate(i) ==
    /\ pc[i] = "in_engine"
    /\ Searching(eng[i])
    /\ eng[i].iter < MaxSearchIterations
    /\ eng' = [eng EXCEPT ![i] = [@ EXCEPT !.iter = @ + 1]]
    /\ UNCHANGED <<pc, req, expr_chars, var_chars, result, j_result, ret, heap, log>>

\* The step is within tolerance: a critical point, and on to the next seed.
SearchConverge(i) ==
    /\ pc[i] = "in_engine"
    /\ Searching(eng[i])
    /\ eng' = [eng EXCEPT ![i] = [@ EXCEPT !.found = @ + 1, !.seed = @ + 1,
                                           !.iter = 0]]
    /\ UNCHANGED <<pc, req, expr_chars, var_chars, result, j_result, ret, heap, log>>

\* The budget is spent: the point is "not found", and on to the next seed.
SearchGiveUp(i) ==
    /\ pc[i] = "in_engine"
    /\ Searching(eng[i])
    /\ eng[i].iter >= MaxSearchIterations
    /\ eng' = [eng EXCEPT ![i] = [@ EXCEPT !.notFound = @ + 1, !.seed = @ + 1,
                                           !.iter = 0]]
    /\ UNCHANGED <<pc, req, expr_chars, var_chars, result, j_result, ret, heap, log>>

\* The engine returns its one result buffer.
EngineReturn(i) ==
    /\ pc[i] = "in_engine"
    /\ ~Searching(eng[i])
    /\ result' = [result EXCEPT ![Frame(i)] = Rust(i)]
    /\ heap' = Allocated(heap, Rust(i), EngineResult(eng[i]))
    /\ log' = Logged(i, Entry("engine_return", eng[i].fn, Rust(i), << >>, << >>))
    /\ eng' = [eng EXCEPT ![i] = EngIdle]
    /\ pc' = [pc EXCEPT ![i] = "release_expr"]
    /\ UNCHANGED <<req, expr_chars, var_chars, j_result, ret>>

\* ------------------------------------------------- the rest of the bridge

\* env->ReleaseStringUTFChars(expression, expr_chars);
ReleaseExpr(i) ==
    /\ pc[i] = "release_expr"
    /\ heap' = Released(heap, expr_chars[Frame(i)], i, "expression")
    /\ log' = Logged(i, Entry("ReleaseStringUTFChars", "expression",
                              expr_chars[Frame(i)], << >>, << >>))
    /\ pc' = [pc EXCEPT ![i] = IF HasVariable(req[i].op) THEN "release_var"
                               ELSE "new_string"]
    /\ UNCHANGED <<req, expr_chars, var_chars, result, j_result, ret, eng>>

\* env->ReleaseStringUTFChars(variable, var_chars);
ReleaseVar(i) ==
    /\ pc[i] = "release_var"
    /\ heap' = Released(heap, var_chars[Frame(i)], i, "variable")
    /\ log' = Logged(i, Entry("ReleaseStringUTFChars", "variable",
                              var_chars[Frame(i)], << >>, << >>))
    /\ pc' = [pc EXCEPT ![i] = "new_string"]
    /\ UNCHANGED <<req, expr_chars, var_chars, result, j_result, ret, eng>>

\* The result freed first and converted afterwards.
NewStringUTFAfterFree(i) ==
    /\ pc[i] = "new_string"
    /\ LET p == result[Frame(i)]
           h == Released(heap, p, i, "")
       IN
       /\ \E ok \in BOOLEAN : \E c \in Readable(h, p, Garbage) :
            /\ j_result' = [j_result EXCEPT ![Frame(i)] = IF ok THEN <<c>> ELSE NULL]
            /\ log' = [log EXCEPT ![i] = @ \o
                         << Entry("free_string", "", p, << >>, << >>),
                            Entry("NewStringUTF", "", p, << >>, <<ok>>) >>]
       /\ heap' = ReadOf(h, p)
    /\ pc' = [pc EXCEPT ![i] = "return"]
    /\ UNCHANGED <<req, expr_chars, var_chars, result, ret, eng>>

\* jstring j_result = env->NewStringUTF(result);  a copy of the buffer's
\* content, or null when the Java string cannot be allocated.
NewStringUTF(i) ==
    /\ pc[i] = "new_string"
    /\ LET p == result[Frame(i)] IN
       /\ \E ok \in BOOLEAN : \E c \in Readable(heap, p, Garbage) :
            /\ j_result' = [j_result EXCEPT ![Frame(i)] = IF ok THEN <<c>> ELSE NULL]
            /\ log' = Logged(i, Entry("NewStringUTF", "", p, << >>, <<ok>>))
       /\ heap' = ReadOf(heap, p)
    /\ pc' = [pc EXCEPT ![i] = "free_string"]
    /\ UNCHANGED <<req, expr_chars, var_chars, result, ret, eng>>

\* The result freed only when the conversion gave a Java string.
FreeResultIfConverted(i) ==
    /\ pc[i] = "free_string"
    /\ IF j_result[Frame(i)] # NULL
       THEN /\ heap' = Released(heap, result[Frame(i)], i, "")
            /\ log' = Logged(i, Entry("free_string", "", result[Frame(i)], << >>, << >>))
       ELSE UNCHANGED <<heap, log>>
    /\ pc' = [pc EXCEPT ![i] = "return"]
    /\ UNCHANGED <<req, expr_chars, var_chars, result, j_result, ret, eng>>

\* free_string(result);
FreeResult(i) ==
    /\ pc[i] = "free_string"
    /\ heap' = Released(heap, result[Frame(i)], i, "")
    /\ log' = Logged(i, Entry("free_string", "", result[Frame(i)], << >>, << >>))
    /\ pc' = [pc EXCEPT ![i] = "return"]
    /\ UNCHANGED <<req, expr_chars, var_chars, result, j_result, ret, eng>>

\* A bridge that hands the host null for an engine error.
ReturnNullOnError(i) ==
    /\ pc[i] = "return"
    /\ ret' = [ret EXCEPT ![i] =
                 IF j_result[Frame(i)] # NULL /\ j_result[Frame(i)][1].error
                 THEN NULL ELSE j_result[Frame(i)]]
    /\ pc' = [pc EXCEPT ![i] = "done"]
    /\ expr_chars' = Popped(expr_chars, i)
    /\ var_chars' = Popped(var_chars, i)
    /\ result' = Popped(result, i)
    /\ j_result' = Popped(j_result, i)
    /\ UNCHANGED <<req, heap, eng, log>>

\* return j_result;
Return(i) ==
    /\ pc[i] = "return"
    /\ ret' = [ret EXCEPT ![i] = j_result[Frame(i)]]
    /\ pc' = [pc EXCEPT ![i] = "done"]
    /\ expr_chars' = Popped(expr_chars, i)
    /\ var_chars' = Popped(var_chars, i)
    /\ result' = Popped(result, i)
    /\ j_result' = Popped(j_result, i)
    /\ UNCHANGED <<req, heap, eng, log>>

\* One step of thread i: a statement of the native method it runs, or a step
\* of the engine call it is in.
Step(i) ==
    \/ Invoke(i)
    \/ GetExprChars(i)
    \/ GetVarChars(i)
    \/ FailAcquire(i)
    \/ CallEngine(i)
    \/ SearchIterate(i)
    \/ SearchConverge(i)
    \/ SearchGiveUp(i)
    \/ EngineReturn(i)
    \/ ReleaseExpr(i)
    \/ ReleaseVar(i)
    \/ NewStringUTF(i)
    \/ FreeResult(i)
    \/ Return(i)
    \/ HostTakes(i)

Next == \E i \in Threads : Step(i)

Spec == Init /\ [][Next]_vars

\* One host thread alone, which the scheduler keeps running.
Alone == CHOOSE i \in Threads : TRUE

NextAlone == Step(Alone)

SearchSpec == Init /\ [][NextAlone]_vars /\ WF_vars(NextAlone)

\* ------------------------------------------------------------ the claims

\* The positions of the calls named `call` in thread i's log.
At(i, call) == {k \in DOMAIN log[i] : log[i][k].call = call}

\* The positions of the calls named `call` on buffer p in thread i's log.
AtOn(i, call, p) == {k \in At(i, call) : log[i][k].ptr = p}

EngineFns == {"analyze_function", "compute_derivative", "create_plot",
              "benchmark_function"}

\* The positions of the engine calls in thread i's log.
EngineCallsAt(i) == {k \in DOMAIN log[i] : log[i][k].call \in EngineFns}

\* An acquisition of the running call failed.
AcquireFailed(i) == AtOn(i, "GetStringUTFChars", NULL) # {}

\* The conversion of the result to a Java string failed.
ConvertFailed(i) ==
    \E k \in At(i, "NewStringUTF") : log[i][k].args = <<FALSE>>

\* C1: in each of the four bridge operations, a result buffer the engine
\* returned is never freed twice, and when the bridge has returned it was
\* freed exactly once, also when NewStringUTF failed.
C1_ResultFreedExactlyOnce ==
    \A i \in Threads : \A k \in At(i, "engine_return") :
        LET p == log[i][k].ptr IN
        /\ Cardinality(AtOn(i, "free_string", p)) <= 1
        /\ heap[p].rel <= 1
        /\ pc[i] = "done" =>
              /\ Cardinality(AtOn(i, "free_string", p)) = 1
              /\ heap[p].rel = 1
              /\ heap[p].st = "released"

\* A call returned after NewStringUTF failed, its result freed once.
C1_Witness ==
    \E i \in Threads :
        /\ pc[i] = "done"
        /\ At(i, "engine_return") # {}
        /\ ConvertFailed(i)
        /\ ret[i] = NULL
        /\ heap[Rust(i)].rel = 1

\* C2: the result buffer is freed only after NewStringUTF has read it, and
\* nothing reads it once it is freed.
C2_FreeAfterConsumption ==
    \A i \in Threads :
        /\ \A k \in At(i, "free_string") :
              /\ \E j \in AtOn(i, "NewStringUTF", log[i][k].ptr) : j < k
              /\ \A j \in AtOn(i, "NewStringUTF", log[i][k].ptr) : j < k
              /\ heap[log[i][k].ptr].consumed
        /\ ~heap[Rust(i)].badRead

\* A result was read by NewStringUTF and then freed.
C2_Witness ==
    \E i \in Threads :
        /\ At(i, "free_string") # {}
        /\ heap[Rust(i)].consumed
        /\ heap[Rust(i)].st = "released"
        /\ ret[i] # NULL

\* The kinds of a structured result, and whether each is an error.
ValueKinds == {"Value", "Simplified", "Classification", "CriticalPoints",
               "Derivative", "SampleGrid", "BenchmarkResult"}

ErrorKinds == {"ParseError", "InvalidRangeError", "InvalidArgumentError"}

Structured(c) ==
    \/ c.kind \in ValueKinds /\ ~c.error
    \/ c.kind \in ErrorKinds /\ c.error

\* C3 as stated: every call that has returned gave the host a structured
\* string, never null.
C3_AlwaysStructuredResult ==
    \A i \in Threads :
        pc[i] = "done" => ret[i] # NULL /\ Structured(ret[i][1])

\* C3 as amended: a call that has returned gave the host null exactly when an
\* input acquisition or the conversion of the result failed; otherwise it
\* gave the engine's own structured result, an engine error included.
C3_StructuredUnlessJniFails ==
    \A i \in Threads :
        pc[i] = "done" =>
            /\ ret[i] = NULL <=> (AcquireFailed(i) \/ ConvertFailed(i))
            /\ ret[i] # NULL =>
                  /\ Structured(ret[i][1])
                  /\ ret[i][1] = heap[Rust(i)].content

\* A call returned an engine error to the host as a structured result.
C3_Witness ==
    \E i \in Threads :
        /\ pc[i] = "done"
        /\ ret[i] # NULL
        /\ ret[i][1].error
        /\ ret[i][1].kind = "ParseError"

\* C4: with calls interleaved, a thread's locals point only at the buffers of
\* its own call, it releases and frees only those, and no buffer is released
\* twice, released by another call, or read after its release.
C4_NoSharingBetweenInvocations ==
    /\ \A p \in Bufs :
          /\ heap[p].rel <= 1
          /\ heap[p].relBy \subseteq {Owner(p)}
          /\ ~heap[p].badRead
    /\ \A i \in Threads :
          /\ \A k \in At(i, "ReleaseStringUTFChars") \cup At(i, "free_string")
                      \cup At(i, "NewStringUTF") :
                log[i][k].ptr # NULL /\ Owner(log[i][k].ptr) = i
          /\ pc[i] \in {"release_expr", "release_var", "new_string", "free_string"}
                => /\ result[Frame(i)] = Rust(i)
                   /\ expr_chars[Frame(i)] = Utf(i, "expression")

\* Two calls are past their engine calls at once: one has freed its result
\* while the other's is still live.
C4_Witness ==
    \E i \in Threads : \E j \in Threads \ {i} :
        /\ pc[i] = "return"
        /\ heap[Rust(i)].st = "released"
        /\ pc[j] \in {"new_string", "free_string"}
        /\ heap[Rust(j)].st = "live"

\* The host asked for a plot over an empty range or with no points.
InvalidPlot(r) ==
    r.op = "nativeCreatePlot" /\ (r.xMin >= r.xMax \/ r.resolution <= 0)

\* The host asked for a benchmark of no iterations.
InvalidBenchmark(r) ==
    r.op = "nativeBenchmarkFunction" /\ r.iterations <= 0

\* c is a rejection made before anything was evaluated: `kind` when the
\* expression parsed, the parse error when it did not.
RejectedAs(c, kind, text) ==
    /\ c.error
    /\ c.evals = 0
    /\ c.kind \in ErrorKinds
    /\ c.kind \notin {"SampleGrid", "BenchmarkResult"}
    /\ text = "wellformed" => c.kind = kind

C6_SearchTerminates ==
    /\ [](\A i \in Threads : eng[i].iter <= MaxSearchIterations)
    /\ [][\A i \in Threads :
            (Searching(eng[i]) /\ eng[i].iter = MaxSearchIterations
                /\ eng'[i] # eng[i])
            => /\ eng'[i].seed = eng[i].seed + 1
               /\ eng'[i].iter = 0
               /\ eng'[i].found + eng'[i].notFound
                    = eng[i].found + eng[i].notFound + 1]_vars
    /\ [](\A i \in Threads :
            (At(i, "engine_return") # {} /\ req[i].mode = 3
                /\ req[i].op = "nativeAnalyzeFunction" /\ req[i].text = "wellformed")
            => /\ heap[Rust(i)].content.kind = "CriticalPoints"
               /\ heap[Rust(i)].content.points + heap[Rust(i)].content.notFound
                    = NumSeeds)
    /\ \A i \in Threads : Searching(eng[i]) ~> pc[i] = "done"

\* A search spent its budget on a starting point and the call returned a
\* result that reports a point not found.
C6_Witness ==
    \E i \in Threads :
        /\ pc[i] = "done"
        /\ req[i].op = "nativeAnalyzeFunction"
        /\ req[i].mode = 3
        /\ ret[i] # NULL
        /\ ret[i][1].kind = "CriticalPoints"
        /\ ret[i][1].notFound >= 1

\* C7: every input buffer GetStringUTFChars returned is released at most once,
\* after its acquisition and with the jstring it came from, exactly once when
\* the call has returned; a failed acquisition (null) is never released.
C7_InputsReleasedExactlyOnce ==
    \A i \in Threads :
        /\ AtOn(i, "ReleaseStringUTFChars", NULL) = {}
        /\ \A k \in At(i, "GetStringUTFChars") :
              LET p == log[i][k].ptr
                  rels == AtOn(i, "ReleaseStringUTFChars", p)
              IN
              p # NULL =>
                 /\ Cardinality(rels) <= 1
                 /\ heap[p].rel <= 1
                 /\ \A j \in rels : j > k /\ log[i][j].jstr = log[i][k].jstr
                 /\ pc[i] = "done" =>
                       /\ Cardinality(rels) = 1
                       /\ heap[p].rel = 1
                       /\ heap[p].relWith = {log[i][k].jstr}

\* nativeComputeDerivative returned after the expression was acquired and the
\* variable was not: the expression was released once, nothing else was.
C7_Witness ==
    \E i \in Threads :
        /\ pc[i] = "done"
        /\ req[i].op = "nativeComputeDerivative"
        /\ heap[Utf(i, "expression")].rel = 1
        /\ heap[Utf(i, "variable")].st = "unalloc"
        /\ Cardinality(At(i, "ReleaseStringUTFChars")) = 1

\* C8: once an acquisition of an input string has failed, the call makes no
\* engine call, no NewStringUTF call and no free_string call, and it returns
\* null; the engine is only ever called with every input acquired.
C8_NullOnFailedAcquisition ==
    \A i \in Threads :
        /\ AcquireFailed(i) =>
              /\ EngineCallsAt(i) = {}
              /\ At(i, "engine_return") = {}
              /\ At(i, "NewStringUTF") = {}
              /\ At(i, "free_string") = {}
              /\ pc[i] = "done" => ret[i] = NULL
        /\ \A k \in EngineCallsAt(i) :
              /\ Len(log[i][k].inp) = IF HasVariable(req[i].op) THEN 2 ELSE 1
              /\ \A m \in DOMAIN log[i][k].inp : log[i][k].inp[m] # NULL

\* nativeComputeDerivative returned null after the variable was acquired and
\* the expression was not.
C8_Witness ==
    \E i \in Threads :
        /\ pc[i] = "done"
        /\ req[i].op = "nativeComputeDerivative"
        /\ AtOn(i, "GetStringUTFChars", Utf(i, "variable")) # {}
        /\ heap[Utf(i, "expression")].st = "unalloc"
        /\ ret[i] = NULL

\* C9: while the engine runs, the buffers it was given are still acquired;
\* an input is released only after the engine call that was given it has
\* returned, and the engine never reads a released input.
C9_InputsHeldDuringEngineCall ==
    \A i \in Threads :
        /\ \A k \in EngineCallsAt(i) : \A m \in DOMAIN log[i][k].inp :
              LET p == log[i][k].inp[m] IN
              /\ pc[i] = "in_engine" => heap[p].st = "live"
              /\ \A j \in AtOn(i, "ReleaseStringUTFChars", p) :
                    \E r \in At(i, "engine_return") : k < r /\ r < j
        /\ \A s \in {"expression", "variable"} : ~heap[Utf(i, s)].badRead

\* The engine is in the middle of a search, on its second starting point,
\* and both the inputs it was given are still acquired.
C9_Witness ==
    \E i \in Threads :
        /\ pc[i] = "in_engine"
        /\ eng[i].seed = 2
        /\ eng[i].iter >= 1
        /\ heap[Utf(i, "expression")].st = "live"

\* C10: a call makes at most one engine call, to the function of its native
\* method, with the scalars the host passed, in their positions.
C10_EngineGetsHostArguments ==
    \A i \in Threads :
        /\ Cardinality(EngineCallsAt(i)) <= 1
        /\ \A k \in EngineCallsAt(i) :
              LET c == log[i][k]
                  r == req[i]
              IN
              CASE r.op = "nativeAnalyzeFunction" ->
                     /\ c.call = "analyze_function"
                     /\ c.args = <<r.iterations, r.mode>>
                [] r.op = "nativeComputeDerivative" ->
                     /\ c.call = "compute_derivative"
                     /\ c.args = <<r.forwardMode = 1>>
                [] r.op = "nativeCreatePlot" ->
                     /\ c.call = "create_plot"
                     /\ c.args = <<r.xMin, r.xMax, r.resolution>>
                [] r.op = "nativeBenchmarkFunction" ->
                     /\ c.call = "benchmark_function"
                     /\ c.args = <<r.iterations>>
                [] OTHER -> FALSE

\* One call passed a plot range and resolution to create_plot while another
\* passed JNI_TRUE to compute_derivative.
C10_Witness ==
    \E i \in Threads : \E j \in Threads :
        /\ req[i].op = "nativeCreatePlot"
        /\ req[i].xMin < req[i].xMax
        /\ req[i].resolution = MaxCount
        /\ EngineCallsAt(i) # {}
        /\ req[j].op = "nativeComputeDerivative"
        /\ req[j].forwardMode = 1
        /\ EngineCallsAt(j) # {}

====
